---- MODULE Spec2Model ----
(***************************************************************************)
(* Role-based authentication of phlow: the orchestrator                    *)
(* PhlowMiddleware.authenticate_with_role (src/src/phlow/middleware.py),   *)
(* the verifier RoleCredentialVerifier (src/src/phlow/rbac/verifier.py),   *)
(* the Role Cache they share, and the credential store                     *)
(* RoleCredentialStore (src/src/phlow/rbac/store.py).                      *)
(*                                                                         *)
(* Spec runs calls of the orchestrator, VerifierSpec one call of the       *)
(* verifier on a presentation drawn from a set, StoreSpec the operations   *)
(* of one store; the parts a specification does not run stay idle.         *)
(*                                                                         *)
(* Conventions.  An optional value (Python's None or a value) is a         *)
(* sequence of length 0 or 1.  A text built by an f-string is the sequence *)
(* of its parts, so that a prefix stays visible; the empty text is << >>,  *)
(* which is falsy like Python's None and "".  Time is a logical clock.     *)
(* Every `await` of the orchestrator is a point where another attempt may  *)
(* run; the code between two awaits is one step.                           *)
(***************************************************************************)
EXTENDS Integers, Sequences, FiniteSets, TLC

\* ---------------------------------------------------------------- bounds
MaxTime == 2
MaxCallbacks == 1

\* ------------------------------------------------------------ value sets
\* Two calls of authenticate_with_role, free to overlap.
Attempts == {"call-1", "call-2"}
Times == 0..MaxTime
Roles == {"admin", "manager"}
AgentIds == {"agent-1", "agent-2"}
\* A nonce names the call that drew it; StaleNonce was drawn by none of them.
StaleNonce == <<"nonce", "stale">>

None == << >>
Some(x) == <<x>>
IsSome(o) == Len(o) > 0
Get(o) == o[1]

\* ------------------------------------------------------------ credentials
\* A proof: the four fields the verifier looks at, each present (truthy) or not.
CompleteProof ==
    [type |-> TRUE, created |-> TRUE, verification_method |-> TRUE, signature |-> TRUE]
UnsignedProof ==
    [type |-> TRUE, created |-> TRUE, verification_method |-> TRUE, signature |-> FALSE]

\* An expirationDate string: whether it is ISO formatted, and the instant it names.
IsoDate(t) == [iso |-> TRUE, at |-> t]
BadDate == [iso |-> FALSE, at |-> 0]

Credential(types, roles, exp, proof) ==
    [type |-> types, issuer |-> "did:example:issuer", roles |-> roles,
     expiration_date |-> exp, proof |-> proof]

RoleTypes == {"VerifiableCredential", "RoleCredential"}
PlainTypes == {"VerifiableCredential"}

\* CredentialSubject.get_roles(): the role strings of the subject, single or many.
get_roles(credential) == credential.roles

\* The credentials a presentation may carry.
Credentials ==
    { Credential(ty, rs, exp, pf) :
        ty \in {RoleTypes, PlainTypes},
        rs \in {{"admin"}, {"manager"}, {"admin", "manager"}},
        exp \in {None} \cup {Some(IsoDate(t)) : t \in Times} \cup {Some(BadDate)},
        pf \in {None, Some(CompleteProof), Some(UnsignedProof)} }

\* VerifiablePresentation(verifiableCredential=creds, holder=holder, proof=proof)
VerifiablePresentation(creds, holder, proof) ==
    [verifiable_credential |-> creds, holder |-> holder, proof |-> proof]

Presentation(creds, proof) == VerifiablePresentation(creds, "did:example:holder", proof)

\* ------------------------------------------------------ verification result
Invalid(msg) ==
    [is_valid |-> FALSE, role |-> None, issuer_did |-> None, expires_at |-> None,
     credential_hash |-> None, error_message |-> Some(msg)]

\* datetime.fromisoformat(...): raises ValueError on a malformed string.
FromIsoRaises(date) == ~date.iso

\* Mutant of _parse_expiration: no expiry is passed on.
_parse_expiration_Unbounded(expiration_date) == None

\* RoleCredentialVerifier._parse_expiration
_parse_expiration(expiration_date) ==
    IF ~IsSome(expiration_date) THEN None
    ELSE IF FromIsoRaises(Get(expiration_date)) THEN None
    ELSE Some(Get(expiration_date).at)

\* Mutant of _verify_credential_signature: every credential is accepted.
_verify_credential_signature_Accepts(credential) == TRUE

\* RoleCredentialVerifier._verify_credential_signature
_verify_credential_signature(credential) ==
    IF ~IsSome(credential.proof) THEN FALSE
    ELSE LET p == Get(credential.proof)
         IN  p.type /\ p.created /\ p.verification_method /\ p.signature

\* RoleCredentialVerifier._verify_presentation_signature
_verify_presentation_signature(presentation) == IsSome(presentation.proof)

\* Mutant of IsPastExpiry: no expiry is past.
IsPastExpiry_Never(expiry, now) == FALSE

\* The expiration test of _verify_role_credential: expiry < now.
IsPastExpiry(expiry, now) == expiry < now

\* The value a credential holds under a key of its dump (by alias), if any.
FieldValue(credential, key) ==
    CASE key = "credentialSubject" -> Some(credential.roles)
      [] key = "expirationDate" -> credential.expiration_date
      [] key = "issuer" -> Some(credential.issuer)
      [] key = "proof" -> credential.proof
      [] key = "type" -> Some(credential.type)

\* credential.model_dump(by_alias=True, exclude_none=True): the (key, value)
\* pairs in the insertion order `order`, the None fields left out.
RECURSIVE model_dump(_, _)
model_dump(credential, order) ==
    IF order = << >> THEN << >>
    ELSE LET v == FieldValue(credential, Head(order))
         IN  (IF IsSome(v) THEN << <<Head(order), Get(v)>> >> ELSE << >>)
             \o model_dump(credential, Tail(order))

\* The place of a key in the order of strings.
KeyRank(key) ==
    CASE key = "credentialSubject" -> 1
      [] key = "expirationDate" -> 2
      [] key = "issuer" -> 3
      [] key = "proof" -> 4
      [] key = "type" -> 5

\* Mutant of json_dumps_sort_keys: the keys are written in insertion order.
json_dumps_InsertionOrder(dump) == dump

\* json.dumps(credential_dict, sort_keys=True): the pairs in key order.
json_dumps_sort_keys(dump) ==
    LET n == Len(dump)
        place(i) == 1 + Cardinality({j \in 1..n : KeyRank(dump[j][1]) < KeyRank(dump[i][1])})
    IN  [p \in 1..n |-> dump[CHOOSE i \in 1..n : place(i) = p]]

\* hashlib.sha256(...).hexdigest(): one digest per text; the digest is kept as
\* the text itself.
sha256_hexdigest(text) == text

\* The hash of a credential whose dump comes in the insertion order `order`.
CredentialHashOf(credential, order) ==
    sha256_hexdigest(json_dumps_sort_keys(model_dump(credential, order)))

\* The order in which the model declares its fields, the order of its dump.
FieldOrder == <<"type", "issuer", "expirationDate", "credentialSubject", "proof">>

\* RoleCredentialVerifier._create_credential_hash
_create_credential_hash(credential) == CredentialHashOf(credential, FieldOrder)

\* RoleCredentialVerifier._verify_role_credential.  The result is either a
\* RoleVerificationResult or the ValueError that fromisoformat raised.
Raised(exc) == [raised |-> TRUE, exc |-> exc]
Returned(v) == [raised |-> FALSE, value |-> v]

\* Mutant of HasRequiredRole: every role is found.
HasRequiredRole_Always(credential, required_role) == TRUE

\* _verify_role_credential, lines 114-115: required_role in available_roles.
HasRequiredRole(credential, required_role) == required_role \in get_roles(credential)

\* Mutant of _verify_role_credential: the proof is checked before the expiration.
_verify_role_credential_ProofFirst(credential, required_role, now) ==
    IF "RoleCredential" \notin credential.type
        THEN Returned(Invalid(<<"Not a role credential">>))
    ELSE IF ~HasRequiredRole(credential, required_role)
        THEN Returned(Invalid(<<"Required role '", required_role, "' not found in credential">>))
    ELSE IF ~_verify_credential_signature(credential)
        THEN Returned(Invalid(<<"Invalid credential signature">>))
    ELSE IF IsSome(credential.expiration_date)
            /\ FromIsoRaises(Get(credential.expiration_date))
        THEN Raised("ValueError")
    ELSE IF IsSome(credential.expiration_date)
            /\ IsPastExpiry(Get(credential.expiration_date).at, now)
        THEN Returned(Invalid(<<"Credential has expired">>))
    ELSE Returned([is_valid |-> TRUE, role |-> Some(required_role),
                   issuer_did |-> Some(credential.issuer),
                   expires_at |-> _parse_expiration(credential.expiration_date),
                   credential_hash |-> None, error_message |-> None])

_verify_role_credential(credential, required_role, now) ==
    IF "RoleCredential" \notin credential.type
        THEN Returned(Invalid(<<"Not a role credential">>))
    ELSE IF ~HasRequiredRole(credential, required_role)
        THEN Returned(Invalid(<<"Required role '", required_role, "' not found in credential">>))
    ELSE IF IsSome(credential.expiration_date)
            /\ FromIsoRaises(Get(credential.expiration_date))
        THEN Raised("ValueError")
    ELSE IF IsSome(credential.expiration_date)
            /\ IsPastExpiry(Get(credential.expiration_date).at, now)
        THEN Returned(Invalid(<<"Credential has expired">>))
    ELSE IF ~_verify_credential_signature(credential)
        THEN Returned(Invalid(<<"Invalid credential signature">>))
    ELSE Returned([is_valid |-> TRUE, role |-> Some(required_role),
                   issuer_did |-> Some(credential.issuer),
                   expires_at |-> _parse_expiration(credential.expiration_date),
                   credential_hash |-> None, error_message |-> None])

\* The first credential of the presentation typed RoleCredential, if any.
RECURSIVE FindRoleCredential(_)
FindRoleCredential(creds) ==
    IF creds = << >> THEN None
    ELSE IF "RoleCredential" \in Head(creds).type THEN Some(Head(creds))
    ELSE FindRoleCredential(Tail(creds))

\* verify_presentation, lines 43-87: the body of the try block, which returns
\* a result or raises.
VerifyPresentationBody(presentation, required_role, now) ==
    IF presentation.verifiable_credential = << >>
        THEN Returned(Invalid(<<"No credentials in presentation">>))
    ELSE LET found == FindRoleCredential(presentation.verifiable_credential)
         IN  IF ~IsSome(found)
                THEN Returned(Invalid(<<"No role credential found in presentation">>))
             ELSE LET role_credential == Get(found)
                      r == _verify_role_credential(role_credential, required_role, now)
                  IN  IF r.raised THEN r
                      ELSE IF ~r.value.is_valid THEN r
                      ELSE IF ~_verify_presentation_signature(presentation)
                         THEN Returned(Invalid(<<"Invalid presentation signature">>))
                      ELSE Returned(
                           [is_valid |-> TRUE, role |-> Some(required_role),
                            issuer_did |-> Some(role_credential.issuer),
                            expires_at |-> _parse_expiration(role_credential.expiration_date),
                            credential_hash |-> Some(_create_credential_hash(role_credential)),
                            error_message |-> None])

\* Mutant of OnVerifyException: the exception is raised again.
OnVerifyException_Reraises(r) == r

\* verify_presentation, lines 89-93: an exception of the body becomes a result.
OnVerifyException(r) ==
    IF r.raised THEN Returned(Invalid(<<"Verification error: ", r.exc>>)) ELSE r

\* A call of verify_presentation: what it returns, or what it raises.
VerifyPresentationCall(presentation, required_role, now) ==
    OnVerifyException(VerifyPresentationBody(presentation, required_role, now))

\* RoleCredentialVerifier.verify_presentation
verify_presentation(presentation, required_role, now) ==
    VerifyPresentationCall(presentation, required_role, now).value

\* ------------------------------------------------------------- Role Cache
\* The time an absent expires_at stands for, counted from verified_at.
DefaultTTL == 2

CacheKeys == AgentIds \X Roles

\* Mutant of is_expired: an entry without expires_at never expires.
is_expired_Immortal(entry, t) ==
    IF IsSome(entry.expires_at) THEN t >= Get(entry.expires_at) ELSE FALSE

\* RoleCache.is_expired: now() >= entry.expires_at, an absent expires_at
\* standing for the default TTL.
is_expired(entry, t) ==
    IF IsSome(entry.expires_at) THEN t >= Get(entry.expires_at)
    ELSE t >= entry.verified_at + DefaultTTL

\* RoleCache.get_cached_role: the entry of the key or none; a storage failure is
\* logged and read as none.
get_cached_role(store, agent_id, role, storage_fails) ==
    IF storage_fails THEN None ELSE store[<<agent_id, role>>]

\* RoleCache.cache_verified_role: upsert, the prior entry of the key is overwritten.
cache_verified_role(store, agent_id, role, credential_hash, issuer_did, expires_at, t) ==
    [store EXCEPT ![<<agent_id, role>>] =
        Some([credential_hash |-> credential_hash, issuer_did |-> issuer_did,
              verified_at |-> t, expires_at |-> expires_at])]

\* ------------------------------------------------------------ orchestrator
\* A token: a well-formed JWT whose claims name the caller, or a malformed string.
Tokens ==
    { [wellformed |-> TRUE, sub |-> s] : s \in AgentIds }
    \cup { [wellformed |-> FALSE, sub |-> "agent-1"] }

AuthenticationError(msg) == [exc |-> "AuthenticationError", message |-> msg]
OtherError(cls, msg) == [exc |-> cls, message |-> msg]

\* PhlowMiddleware.verify_token: the context (the middleware's own agent card,
\* the token and its claims), or AuthenticationError for a jwt.InvalidTokenError.
verify_token(token, card_agent_id) ==
    IF token.wellformed
        THEN Returned([agent_metadata_agent_id |-> card_agent_id, token |-> token,
                       claims |-> [sub |-> token.sub], verified_roles |-> None])
    ELSE Raised(AuthenticationError(<<"Invalid token: ", "DecodeError">>))

\* authenticate_with_role, line 114: the agent id of context.agent.metadata.
ContextAgentId(context) == context.agent_metadata_agent_id

\* Mutants of CacheHit: the expiry test inverted; the expiry test forgotten.
CacheHit_Inverted(cached_role, t) == IsSome(cached_role) /\ is_expired(Get(cached_role), t)
CacheHit_IgnoresExpiry(cached_role, t) == IsSome(cached_role)

\* authenticate_with_role, line 121: the cached role is used when there is one
\* and it is not expired.
CacheHit(cached_role, t) == IsSome(cached_role) /\ ~is_expired(Get(cached_role), t)

\* The fields the pydantic model PhlowContext declares; its model_config sets
\* arbitrary_types_allowed alone, so extra attributes are not allowed.
PhlowContextFields == {"agent", "token", "claims", "supabase", "a2a_client"}

\* authenticate_with_role, lines 122 and 162: context.verified_roles = [required_role].
\* Assigning a name that is no field of a pydantic model raises ValueError.
SetVerifiedRoles(required_role) ==
    IF "verified_roles" \in PhlowContextFields
        THEN Returned(<<required_role>>)
    ELSE Raised(OtherError("ValueError",
                           <<"\"PhlowContext\" object has no field \"verified_roles\"">>))

\* PhlowMiddleware._generate_nonce: sixteen random characters, a value no other
\* call has drawn.
_generate_nonce(a) == <<"nonce", a>>

\* authenticate_with_role, lines 128-132.
RoleCredentialRequest(required_role, nonce) ==
    [required_role |-> required_role,
     context |-> <<"Access requires '", required_role, "' role">>,
     nonce |-> nonce]

\* _send_role_credential_request, lines 204-208: the reply of the placeholder.
MockResponse(request) ==
    [type |-> "role-credential-response", nonce |-> Some(request.nonce),
     presentation |-> None,
     error |-> <<"Role '", request.required_role, "' not available">>]

\* The presentations a target agent answers with.
TransportCredentials ==
    { c \in Credentials :
        /\ c.type = RoleTypes
        /\ c.roles \in {{"admin"}, {"manager"}}
        /\ c.expiration_date \in {None} \cup {Some(IsoDate(t)) : t \in 1..(MaxTime - 1)}
        /\ c.proof # Some(UnsignedProof) }

TransportPresentations ==
    { Presentation(<<c>>, Some(CompleteProof)) : c \in TransportCredentials }
    \cup { Presentation(<< >>, Some(CompleteProof)) }

\* _send_role_credential_request returns `dict | None`: the reply of the target
\* agent (the placeholder's reply among them), or None when sending failed.  A
\* reply without nonce is one RoleCredentialResponse(**data) does not accept.
TransportReplies(request) ==
    { None, Some(MockResponse(request)) }
    \cup { Some([type |-> "role-credential-response", nonce |-> Some(n),
                 presentation |-> Some(p), error |-> << >>]) :
             n \in {request.nonce, StaleNonce}, p \in TransportPresentations }
    \cup { Some([type |-> "role-credential-response", nonce |-> Some(request.nonce),
                 presentation |-> Some(p), error |-> <<"Role revoked">>]) :
             p \in { Presentation(<<Credential(RoleTypes, {"admin"}, None,
                                               Some(CompleteProof))>>,
                                  Some(CompleteProof)) } }
    \cup { Some([type |-> "role-credential-response", nonce |-> None,
                 presentation |-> None, error |-> << >>]),
           Some([type |-> "role-credential-response", nonce |-> Some(request.nonce),
                 presentation |-> None, error |-> << >>]) }

\* RoleCredentialResponse(**role_response_data), line 144: a reply that lacks
\* the nonce raises a ValidationError.
ParseRaises(data) == ~IsSome(data.nonce)

\* authenticate_with_role, line 147: the reply is verified when it carries a
\* presentation and no error.
ResponseUsable(role_response) ==
    IsSome(role_response.presentation) /\ role_response.error = << >>

\* Mutant of RequestFailedError: the responder's error text is dropped.
RequestFailedError_DropsUpstream(role_response) ==
    AuthenticationError(<<"Role credential request failed: ",
                          "No valid presentation provided">>)

\* authenticate_with_role, lines 169-170.
RequestFailedError(role_response) ==
    AuthenticationError(
        <<"Role credential request failed: ">>
        \o (IF role_response.error # << >> THEN role_response.error
            ELSE <<"No valid presentation provided">>))

\* authenticate_with_role, lines 165-167.
VerificationFailedError(verification_result) ==
    AuthenticationError(
        <<"Role credential verification failed: ">>
        \o Get(verification_result.error_message))

\* authenticate_with_role, line 142.
NoResponseError(required_role) ==
    AuthenticationError(<<"No response received for role '", required_role, "' request">>)

\* authenticate_with_role, lines 172-175: what leaves the try block for an
\* exception raised inside it.
HandleException(e) ==
    IF e.exc = "AuthenticationError" THEN e
    ELSE AuthenticationError(<<"Error during role verification: ">> \o e.message)

\* Mutant of CacheVerified: the credential's expiry is not passed on.
CacheVerified_DropsExpiry(store, agent_id, required_role, verification_result, t) ==
    cache_verified_role(store, agent_id, required_role,
                        verification_result.credential_hash,
                        verification_result.issuer_did, None, t)

\* authenticate_with_role, lines 154-160: the cache write of a verified role.
CacheVerified(store, agent_id, required_role, verification_result, t) ==
    cache_verified_role(store, agent_id, required_role,
                        verification_result.credential_hash,
                        verification_result.issuer_did,
                        verification_result.expires_at, t)

VARIABLES
    now,            \* the clock
    card_agent_id,  \* config.agent_card.metadata['agent_id'], optional
    cache,          \* the Role Cache: key -> optional entry
    att,            \* the attempts: one record per call of authenticate_with_role
    \* a call of the verifier on its own
    v_presentation,   \* the presentation given to verify_presentation
    v_required_role,  \* the role given to verify_presentation
    v_order,          \* the key insertion order of the credential's representation
    v_result,         \* what verify_presentation returned or raised, once called
    v_hash,           \* the credential hash computed from that representation
    \* the credential store of an agent
    _credentials,     \* RoleCredentialStore._credentials: role -> optional credential
    _loaded,          \* RoleCredentialStore._loaded
    credentials_file, \* the file role_credentials.json
    export_file,      \* the file a credential is exported to and imported from
    call,             \* the last call of the store that returned
    returned,         \* what that call returned
    \* the monitor of phlowtop
    client,               \* SupabaseMonitor.client, optional
    is_connected,         \* SupabaseMonitor.is_connected
    callbacks,            \* SupabaseMonitor.callbacks: event type -> callbacks registered
    realtime_channel,     \* SupabaseMonitor.realtime_channel, optional
    subscription_active,  \* SupabaseMonitor.subscription_active
    running               \* where each coroutine of the monitor stands

orchestrator_vars == <<card_agent_id, cache, att>>
verifier_vars == <<v_presentation, v_required_role, v_order, v_result, v_hash>>
store_vars == <<_credentials, _loaded, credentials_file, export_file, call, returned>>
monitor_vars == <<client, is_connected, callbacks, realtime_channel,
                  subscription_active, running>>
vars == <<now, orchestrator_vars, verifier_vars, store_vars, monitor_vars>>

\* The locals of one call; trace lists the calls it has made, in order.
IdleAttempt ==
    [pc |-> "idle", token |-> None, required_role |-> None, agent_id |-> None,
     read_failed |-> FALSE, checked_at |-> None,
     nonce |-> None, response_nonce |-> None, response_error |-> << >>,
     response_presented |-> FALSE,
     verification_result |-> None, written |-> None,
     outcome |-> "none", verified_roles |-> None, error |-> None, trace |-> << >>]

\* The store before a credential is added: nothing in memory, no file.
EmptyIndex == [r \in Roles |-> None]
AbsentFile == [state |-> "absent", data |-> [r \in Roles |-> None]]
NoExport == [state |-> "absent", data |-> << >>]
NoCall == [op |-> "none", role |-> None, credential |-> None, holder_did |-> None,
           challenge |-> None, write |-> "none"]

\* The parts of the system that take no part in a run.
OrchestratorIdle ==
    /\ cache = [k \in CacheKeys |-> None]
    /\ att = [a \in Attempts |-> IdleAttempt]
VerifierIdle ==
    /\ v_presentation = Presentation(<< >>, None)
    /\ v_required_role = "admin"
    /\ v_order = FieldOrder
    /\ v_result = None
    /\ v_hash = None
StoreIdle ==
    /\ _credentials = EmptyIndex
    /\ _loaded = FALSE
    /\ credentials_file = AbsentFile
    /\ export_file = NoExport
    /\ call = NoCall
    /\ returned = None

\* The event types callbacks are registered for.
EventTypes == {"agent_change", "task_change", "message_change"}
\* The coroutines of the monitor that suspend.
Coroutines == {"start_realtime_subscriptions", "stop_realtime_subscriptions", "close"}

\* SupabaseMonitor.__init__
MonitorIdle ==
    /\ client = None
    /\ is_connected = FALSE
    /\ callbacks = [e \in EventTypes |-> 0]
    /\ realtime_channel = None
    /\ subscription_active = FALSE
    /\ running = [c \in Coroutines |-> "idle"]

Init ==
    /\ now = 0
    /\ card_agent_id \in {None, Some("agent-1")}
    /\ OrchestratorIdle
    /\ VerifierIdle
    /\ StoreIdle
    /\ MonitorIdle

\* An exception leaves authenticate_with_role: a denial when it is an
\* AuthenticationError, a raw exception otherwise.
Raise(rec, e) ==
    [rec EXCEPT !.pc = "done", !.error = Some(e),
                !.outcome = IF e.exc = "AuthenticationError" THEN "denied" ELSE "raised"]

\* Lines 122-123, outside the try block: the role is attached and the context
\* returned; an exception of the assignment leaves the call as it is.
ReturnFromCache(rec, required_role) ==
    LET set == SetVerifiedRoles(required_role)
    IN  IF set.raised THEN Raise(rec, set.exc)
        ELSE [rec EXCEPT !.pc = "done", !.outcome = "granted",
                         !.verified_roles = Some(set.value)]

\* Lines 162-163, inside the try block: the same, an exception of the
\* assignment passing through the except clause.
ReturnVerified(rec, required_role) ==
    LET set == SetVerifiedRoles(required_role)
    IN  IF set.raised THEN Raise(rec, HandleException(set.exc))
        ELSE [rec EXCEPT !.pc = "done", !.outcome = "granted",
                         !.verified_roles = Some(set.value)]

\* Lines 111-116: base authentication and the agent id, up to the cache read.
OnCall(rec, token, required_role, card_id) ==
    LET called == [rec EXCEPT !.token = Some(token),
                              !.required_role = Some(required_role),
                              !.trace = <<"verify_token">>]
        ctx == verify_token(token, card_id)
    IN  IF ctx.raised THEN Raise(called, ctx.exc)
        ELSE IF ~IsSome(ContextAgentId(ctx.value))
            THEN Raise(called, AuthenticationError(<<"Agent ID not found in token">>))
        ELSE [called EXCEPT !.pc = "cache_check",
                            !.agent_id = ContextAgentId(ctx.value)]

\* Mutants of OnCacheMiss: a miss is denied; the request is sent twice.
OnCacheMiss_Denies(rec, nonce) ==
    Raise(rec, AuthenticationError(<<"Role not verified">>))
OnCacheMiss_SendsTwice(rec, nonce) ==
    [rec EXCEPT !.pc = "awaiting", !.nonce = Some(nonce),
                !.trace = @ \o <<"request", "request">>]

\* Lines 126-139: on a miss, the nonce, the request and its sending.
OnCacheMiss(rec, nonce) ==
    [rec EXCEPT !.pc = "awaiting", !.nonce = Some(nonce),
                !.trace = Append(@, "request")]

\* Lines 119-139: the cache read, then the grant or the request.
OnCacheRead(rec, cached_role, nonce, t) ==
    LET seen == [rec EXCEPT !.checked_at = Some(t), !.trace = Append(@, "cache_check")]
    IN  IF CacheHit(cached_role, t) THEN ReturnFromCache(seen, Get(rec.required_role))
        ELSE OnCacheMiss(seen, nonce)

\* Lines 141-170: the reply is parsed and, when usable, verified.
OnReply(rec, reply, t) ==
    LET role == Get(rec.required_role)
        arrived == [rec EXCEPT !.trace = Append(@, "response")]
    IN  IF ~IsSome(reply) THEN Raise(arrived, HandleException(NoResponseError(role)))
        ELSE IF ParseRaises(Get(reply))
            THEN Raise(arrived, HandleException(
                     OtherError("ValidationError", <<"nonce: field required">>)))
        ELSE LET role_response == Get(reply)
                 got == [arrived EXCEPT
                            !.response_nonce = role_response.nonce,
                            !.response_error = role_response.error,
                            !.response_presented = IsSome(role_response.presentation)]
             IN  IF ~ResponseUsable(role_response)
                    THEN Raise(got, HandleException(RequestFailedError(role_response)))
                 ELSE LET vr == verify_presentation(Get(role_response.presentation), role, t)
                          ver == [got EXCEPT !.verification_result = Some(vr),
                                             !.trace = Append(@, "verify")]
                      IN  IF vr.is_valid THEN [ver EXCEPT !.pc = "caching"]
                          ELSE Raise(ver, HandleException(VerificationFailedError(vr)))

Begin(a) ==
    /\ att[a].pc = "idle"
    /\ \E token \in Tokens, required_role \in Roles :
         att' = [att EXCEPT ![a] = OnCall(att[a], token, required_role, card_agent_id)]
    /\ UNCHANGED <<now, card_agent_id, cache, verifier_vars, store_vars, monitor_vars>>

CacheCheck(a) ==
    /\ att[a].pc = "cache_check"
    /\ \E storage_fails \in BOOLEAN :
         LET rec == [att[a] EXCEPT !.read_failed = storage_fails]
             cached_role == get_cached_role(cache, Get(rec.agent_id),
                                            Get(rec.required_role), storage_fails)
         IN  att' = [att EXCEPT ![a] =
                        OnCacheRead(rec, cached_role, _generate_nonce(a), now)]
    /\ UNCHANGED <<now, card_agent_id, cache, verifier_vars, store_vars, monitor_vars>>

\* The target agent answers, or sending fails.
Respond(a) ==
    /\ att[a].pc = "awaiting"
    /\ \E reply \in TransportReplies(
                RoleCredentialRequest(Get(att[a].required_role), Get(att[a].nonce))) :
         att' = [att EXCEPT ![a] = OnReply(att[a], reply, now)]
    /\ UNCHANGED <<now, card_agent_id, cache, verifier_vars, store_vars, monitor_vars>>

\* Lines 154-163: the verified role is cached and the context returned.
CacheWrite(a) ==
    /\ att[a].pc = "caching"
    /\ LET rec == att[a]
           role == Get(rec.required_role)
           store == CacheVerified(cache, Get(rec.agent_id), role,
                                  Get(rec.verification_result), now)
       IN  /\ cache' = store
           /\ att' = [att EXCEPT ![a] =
                  ReturnVerified(
                      [rec EXCEPT !.written = store[<<Get(rec.agent_id), role>>],
                                  !.trace = Append(@, "cache_write")], role)]
    /\ UNCHANGED <<now, card_agent_id, verifier_vars, store_vars, monitor_vars>>

Tick ==
    /\ now < MaxTime
    /\ now' = now + 1
    /\ UNCHANGED <<orchestrator_vars, verifier_vars, store_vars, monitor_vars>>

Next ==
    \/ \E a \in Attempts : Begin(a)
    \/ \E a \in Attempts : CacheCheck(a)
    \/ \E a \in Attempts : Respond(a)
    \/ \E a \in Attempts : CacheWrite(a)
    \/ Tick

Spec == Init /\ [][Next]_vars

\* The steps of the orchestrator itself run when they can and time passes;
\* nothing makes the target agent answer.
FairSpec ==
    /\ Spec
    /\ WF_vars(Tick)
    /\ \A a \in Attempts :
         /\ WF_vars(Begin(a))
         /\ WF_vars(CacheCheck(a))
         /\ WF_vars(CacheWrite(a))

\* ---------------------------------------------------- the verifier alone
\* The credential verify_presentation selects from a presentation, if any.
Selected(presentation) == FindRoleCredential(presentation.verifiable_credential)

\* Credentials put in front of another one in a presentation.
Decoys ==
    { Credential(PlainTypes, {"admin"}, None, Some(CompleteProof)),
      Credential(RoleTypes, {"manager"}, None, Some(CompleteProof)) }

\* The presentations given to the verifier.
VerifierPresentations ==
    { Presentation(<<c>>, pf) : c \in Credentials, pf \in {None, Some(CompleteProof)} }
    \cup { Presentation(<<d, c>>, Some(CompleteProof)) : d \in Decoys, c \in Credentials }
    \cup { Presentation(<< >>, Some(CompleteProof)) }

\* Insertion orders of the keys of a credential's representation.
Orders ==
    { FieldOrder,
      <<"proof", "credentialSubject", "expirationDate", "issuer", "type">>,
      <<"issuer", "type", "proof", "expirationDate", "credentialSubject">> }

VerifierInit ==
    /\ now \in Times
    /\ card_agent_id = None
    /\ OrchestratorIdle
    /\ StoreIdle
    /\ MonitorIdle
    /\ v_presentation \in VerifierPresentations
    /\ v_required_role \in Roles
    /\ v_order \in Orders
    /\ v_result = None
    /\ v_hash = None

\* verify_presentation(presentation, required_role) is called and comes back.
Verify ==
    /\ v_result = None
    /\ v_result' = Some(VerifyPresentationCall(v_presentation, v_required_role, now))
    /\ UNCHANGED <<now, orchestrator_vars, store_vars, monitor_vars,
                   v_presentation, v_required_role, v_order, v_hash>>

\* The hash of the selected credential is computed from its representation.
Hash ==
    /\ v_hash = None
    /\ IsSome(Selected(v_presentation))
    /\ v_hash' = Some(CredentialHashOf(Get(Selected(v_presentation)), v_order))
    /\ UNCHANGED <<now, orchestrator_vars, store_vars, monitor_vars,
                   v_presentation, v_required_role, v_order, v_result>>

VerifierNext ==
    \/ Verify
    \/ Hash

VerifierSpec == VerifierInit /\ [][VerifierNext]_vars

\* ------------------------------------------------------ credential store
\* The credentials an agent holds.
StoreCredentials ==
    { Credential(RoleTypes, {"admin"}, None, Some(CompleteProof)),
      Credential(RoleTypes, {"manager"}, None, Some(CompleteProof)),
      Credential(RoleTypes, {"admin", "manager"}, None, Some(CompleteProof)),
      Credential(RoleTypes, {"admin", "manager"}, Some(IsoDate(1)), Some(CompleteProof)) }

Holders == {"did:example:x", "did:example:y"}
Challenges == {None, Some("chal-1")}

\* What becomes of the file when save_credentials writes it: written; not
\* opened (left as it was); opened, and so truncated, but not written whole.
WriteOutcomes == {"ok", "open_fails", "dump_fails"}

\* The value a dump holds under a key, if any.
DumpValue(cred_data, key) ==
    IF \E i \in DOMAIN cred_data : cred_data[i][1] = key
        THEN Some(cred_data[CHOOSE i \in DOMAIN cred_data : cred_data[i][1] = key][2])
    ELSE None

\* Mutant of ParseCredential: the proof of the dump is not read.
ParseCredential_DropsProof(cred_data) ==
    IF \E k \in {"type", "issuer", "credentialSubject"} : ~IsSome(DumpValue(cred_data, k))
        THEN Raised("ValidationError")
    ELSE Returned([type |-> Get(DumpValue(cred_data, "type")),
                   issuer |-> Get(DumpValue(cred_data, "issuer")),
                   roles |-> Get(DumpValue(cred_data, "credentialSubject")),
                   expiration_date |-> DumpValue(cred_data, "expirationDate"),
                   proof |-> None])

\* RoleCredential(**cred_data), line 42: the credential of a dump, or a
\* ValidationError when a required field is missing.
ParseCredential(cred_data) ==
    IF \E k \in {"type", "issuer", "credentialSubject"} : ~IsSome(DumpValue(cred_data, k))
        THEN Raised("ValidationError")
    ELSE Returned([type |-> Get(DumpValue(cred_data, "type")),
                   issuer |-> Get(DumpValue(cred_data, "issuer")),
                   roles |-> Get(DumpValue(cred_data, "credentialSubject")),
                   expiration_date |-> DumpValue(cred_data, "expirationDate"),
                   proof |-> DumpValue(cred_data, "proof")])

\* credential.dict(by_alias=True, exclude_none=True), line 63.
DumpCredential(credential) == model_dump(credential, FieldOrder)

\* A file of JSON with the given entries; a file that is no JSON.
JsonFile(data) == [state |-> "json", data |-> data]
CorruptFile == [state |-> "corrupt", data |-> [r \in Roles |-> None]]
\* An entry RoleCredential(**cred_data) does not accept.
BadEntry == << <<"issuer", "did:example:issuer">> >>

\* The files a store may find when it is opened.
InitialFiles ==
    { AbsentFile, CorruptFile,
      JsonFile([r \in Roles |-> IF r = "admin"
                   THEN Some(DumpCredential(
                            Credential(RoleTypes, {"admin"}, None, Some(CompleteProof))))
                   ELSE None]),
      JsonFile([r \in Roles |-> IF r = "admin" THEN Some(BadEntry)
                   ELSE Some(DumpCredential(
                            Credential(RoleTypes, {"admin", "manager"}, None,
                                       Some(CompleteProof))))]) }

\* RoleCredentialStore.load_credentials: the index after loading.  No file
\* leaves the index as it is; a file that is no JSON empties it; an entry that
\* does not parse is skipped.
load_credentials(index, file) ==
    IF file.state = "absent" THEN index
    ELSE IF file.state = "corrupt" THEN EmptyIndex
    ELSE [r \in Roles |->
            IF IsSome(file.data[r]) /\ ~ParseCredential(Get(file.data[r])).raised
                THEN Some(ParseCredential(Get(file.data[r])).value)
            ELSE None]

\* RoleCredentialStore.save_credentials: the file after saving; an exception is
\* logged and not raised.
save_credentials(index, file, write) ==
    IF write = "ok"
        THEN JsonFile([r \in Roles |->
                         IF IsSome(index[r]) THEN Some(DumpCredential(Get(index[r])))
                         ELSE None])
    ELSE IF write = "open_fails" THEN file
    ELSE CorruptFile

\* The export files a store may find: none, or one that holds no credential.
InitialExports == { NoExport, [state |-> "json", data |-> BadEntry] }

\* `if not self._loaded: await self.load_credentials()`: the index an
\* operation works on.
EnsureLoaded(index, loaded, file) ==
    IF loaded THEN index ELSE load_credentials(index, file)

\* Mutant of IndexCredential: a role that has a credential keeps it.
IndexCredential_FirstWins(index, credential) ==
    [r \in Roles |-> IF r \in get_roles(credential) /\ ~IsSome(index[r])
                        THEN Some(credential) ELSE index[r]]

\* add_credential, lines 83-87: the credential is put under every role it grants.
IndexCredential(index, credential) ==
    [r \in Roles |-> IF r \in get_roles(credential) THEN Some(credential) ELSE index[r]]

\* Mutant of DeleteRole: the credential leaves every role it is stored under.
DeleteRole_WholeCredential(index, role) ==
    [r \in Roles |-> IF index[r] = index[role] THEN None ELSE index[r]]

\* remove_credential, line 143: del self._credentials[role].
DeleteRole(index, role) == [index EXCEPT ![role] = None]

\* Mutant of PresentCredential: the holder is not the one asked for.
PresentCredential_OtherHolder(credential, holder_did, challenge) ==
    Some(VerifiablePresentation(<<credential>>, "did:example:holder", None))

\* create_presentation, lines 167-184: the presentation of a credential; the
\* proof is left unset and the challenge is not used.
PresentCredential(credential, holder_did, challenge) ==
    Some(VerifiablePresentation(<<credential>>, holder_did, None))

\* What get_credential(role) returns in a state of the store.
View(index, loaded, file, role) == EnsureLoaded(index, loaded, file)[role]

\* A call of the store that has returned: the operation and its arguments.
Called(op, role, credential, holder_did, challenge, write) ==
    [op |-> op, role |-> role, credential |-> credential, holder_did |-> holder_did,
     challenge |-> challenge, write |-> write]

StoreInit ==
    /\ now = 0
    /\ card_agent_id = None
    /\ OrchestratorIdle
    /\ VerifierIdle
    /\ MonitorIdle
    /\ _credentials = EmptyIndex
    /\ _loaded = FALSE
    /\ credentials_file \in InitialFiles
    /\ export_file \in InitialExports
    /\ call = NoCall
    /\ returned = None

\* RoleCredentialStore.load_credentials, called by the agent itself.
LoadCredentials ==
    /\ _credentials' = load_credentials(_credentials, credentials_file)
    /\ _loaded' = TRUE
    /\ call' = Called("load_credentials", None, None, None, None, "none")
    /\ returned' = Some(TRUE)
    /\ UNCHANGED <<now, orchestrator_vars, verifier_vars, monitor_vars,
                   credentials_file, export_file>>

\* RoleCredentialStore.add_credential
AddCredential(credential, write) ==
    /\ _credentials' = IndexCredential(
                           EnsureLoaded(_credentials, _loaded, credentials_file),
                           credential)
    /\ _loaded' = TRUE
    /\ credentials_file' = save_credentials(_credentials', credentials_file, write)
    /\ call' = Called("add_credential", None, Some(credential), None, None, write)
    /\ returned' = Some(TRUE)
    /\ UNCHANGED <<now, orchestrator_vars, verifier_vars, monitor_vars, export_file>>

\* RoleCredentialStore.get_credential
GetCredential(role) ==
    /\ _credentials' = EnsureLoaded(_credentials, _loaded, credentials_file)
    /\ _loaded' = TRUE
    /\ call' = Called("get_credential", Some(role), None, None, None, "none")
    /\ returned' = Some(_credentials'[role])
    /\ UNCHANGED <<now, orchestrator_vars, verifier_vars, monitor_vars,
                   credentials_file, export_file>>

\* RoleCredentialStore.has_role
HasRole(role) ==
    /\ _credentials' = EnsureLoaded(_credentials, _loaded, credentials_file)
    /\ _loaded' = TRUE
    /\ call' = Called("has_role", Some(role), None, None, None, "none")
    /\ returned' = Some(IsSome(_credentials'[role]))
    /\ UNCHANGED <<now, orchestrator_vars, verifier_vars, monitor_vars,
                   credentials_file, export_file>>

\* RoleCredentialStore.get_all_roles
GetAllRoles ==
    /\ _credentials' = EnsureLoaded(_credentials, _loaded, credentials_file)
    /\ _loaded' = TRUE
    /\ call' = Called("get_all_roles", None, None, None, None, "none")
    /\ returned' = Some({r \in Roles : IsSome(_credentials'[r])})
    /\ UNCHANGED <<now, orchestrator_vars, verifier_vars, monitor_vars,
                   credentials_file, export_file>>

\* RoleCredentialStore.remove_credential
RemoveCredential(role, write) ==
    LET index == EnsureLoaded(_credentials, _loaded, credentials_file)
    IN  /\ _loaded' = TRUE
        /\ IF IsSome(index[role])
              THEN /\ _credentials' = DeleteRole(index, role)
                   /\ credentials_file'
                         = save_credentials(_credentials', credentials_file, write)
                   /\ call' = Called("remove_credential", Some(role), None, None, None, write)
                   /\ returned' = Some(TRUE)
              ELSE /\ _credentials' = index
                   /\ credentials_file' = credentials_file
                   /\ call' = Called("remove_credential", Some(role), None, None, None, "none")
                   /\ returned' = Some(FALSE)
        /\ UNCHANGED <<now, orchestrator_vars, verifier_vars, monitor_vars, export_file>>

\* RoleCredentialStore.create_presentation
CreatePresentation(role, holder_did, challenge) ==
    LET index == EnsureLoaded(_credentials, _loaded, credentials_file)
    IN  /\ _credentials' = index
        /\ _loaded' = TRUE
        /\ call' = Called("create_presentation", Some(role), None, Some(holder_did),
                          challenge, "none")
        /\ returned' = Some(IF IsSome(index[role])
                                THEN PresentCredential(Get(index[role]), holder_did,
                                                       challenge)
                            ELSE None)
        /\ UNCHANGED <<now, orchestrator_vars, verifier_vars, monitor_vars,
                   credentials_file, export_file>>

\* export_credential_to_file, lines 224-235: the file after the export, and
\* what the export returns.
ExportedFile(credential, file, write) ==
    IF write = "ok" THEN [state |-> "json", data |-> DumpCredential(credential)]
    ELSE IF write = "open_fails" THEN file
    ELSE [state |-> "corrupt", data |-> << >>]

\* RoleCredentialStore.export_credential_to_file
ExportCredentialToFile(role, write) ==
    LET index == EnsureLoaded(_credentials, _loaded, credentials_file)
    IN  /\ _credentials' = index
        /\ _loaded' = TRUE
        /\ IF IsSome(index[role])
              THEN /\ export_file' = ExportedFile(Get(index[role]), export_file, write)
                   /\ call' = Called("export_credential_to_file", Some(role), None, None,
                                     None, write)
                   /\ returned' = Some(write = "ok")
              ELSE /\ export_file' = export_file
                   /\ call' = Called("export_credential_to_file", Some(role), None, None,
                                     None, "none")
                   /\ returned' = Some(FALSE)
        /\ UNCHANGED <<now, orchestrator_vars, verifier_vars, monitor_vars,
                       credentials_file>>

\* import_credential_from_file, lines 196-199: the credential read from the
\* file, or the exception of open, json.load or RoleCredential(**data).
ReadExport(file) ==
    IF file.state = "absent" THEN Raised("FileNotFoundError")
    ELSE IF file.state = "corrupt" THEN Raised("JSONDecodeError")
    ELSE ParseCredential(file.data)

\* RoleCredentialStore.import_credential_from_file
ImportCredentialFromFile(write) ==
    LET read == ReadExport(export_file)
    IN  /\ IF read.raised
              THEN /\ UNCHANGED <<_credentials, _loaded, credentials_file>>
                   /\ call' = Called("import_credential_from_file", None, None, None,
                                     None, "none")
                   /\ returned' = Some(FALSE)
              ELSE /\ _credentials' = IndexCredential(
                                          EnsureLoaded(_credentials, _loaded,
                                                       credentials_file),
                                          read.value)
                   /\ _loaded' = TRUE
                   /\ credentials_file'
                         = save_credentials(_credentials', credentials_file, write)
                   /\ call' = Called("import_credential_from_file", None,
                                     Some(read.value), None, None, write)
                   /\ returned' = Some(TRUE)
        /\ UNCHANGED <<now, orchestrator_vars, verifier_vars, monitor_vars, export_file>>

\* RoleCredentialStore(storage_path) on the path of the store: a new store
\* object over the same file.
Reopen ==
    /\ _credentials' = EmptyIndex
    /\ _loaded' = FALSE
    /\ call' = Called("__init__", None, None, None, None, "none")
    /\ returned' = Some(TRUE)
    /\ UNCHANGED <<now, orchestrator_vars, verifier_vars, monitor_vars,
                   credentials_file, export_file>>

\* RoleCredentialStore(storage_path) on a path not used before: an empty store.
OpenEmpty ==
    /\ _credentials' = EmptyIndex
    /\ _loaded' = FALSE
    /\ credentials_file' = AbsentFile
    /\ call' = Called("__init__", None, None, None, None, "none")
    /\ returned' = Some(TRUE)
    /\ UNCHANGED <<now, orchestrator_vars, verifier_vars, monitor_vars, export_file>>

StoreNext ==
    \/ LoadCredentials
    \/ Reopen
    \/ OpenEmpty
    \/ \E role \in Roles, write \in WriteOutcomes : ExportCredentialToFile(role, write)
    \/ \E write \in WriteOutcomes : ImportCredentialFromFile(write)
    \/ \E credential \in StoreCredentials, write \in WriteOutcomes :
          AddCredential(credential, write)
    \/ \E role \in Roles : GetCredential(role)
    \/ \E role \in Roles : HasRole(role)
    \/ GetAllRoles
    \/ \E role \in Roles, write \in WriteOutcomes : RemoveCredential(role, write)
    \/ \E role \in Roles, holder_did \in Holders, challenge \in Challenges :
          CreatePresentation(role, holder_did, challenge)

StoreSpec == StoreInit /\ [][StoreNext]_vars

\* ------------------------------------------------------------- the monitor
MonitorInit ==
    /\ now = 0
    /\ card_agent_id = None
    /\ OrchestratorIdle
    /\ VerifierIdle
    /\ StoreIdle
    /\ MonitorIdle

\* SupabaseMonitor.connect.  create_client or the test query may raise; the
\* exception is caught and what was assigned before it stays.
Connect(created, tested) ==
    /\ client' = IF created THEN Some("client") ELSE client
    /\ is_connected' = IF created /\ tested THEN TRUE ELSE is_connected
    /\ UNCHANGED <<now, orchestrator_vars, verifier_vars, store_vars,
                   callbacks, realtime_channel, subscription_active, running>>

\* SupabaseMonitor.register_callback
RegisterCallback(event_type) ==
    /\ callbacks[event_type] < MaxCallbacks
    /\ callbacks' = [callbacks EXCEPT ![event_type] = @ + 1]
    /\ UNCHANGED <<now, orchestrator_vars, verifier_vars, store_vars,
                   client, is_connected, realtime_channel, subscription_active, running>>

\* start_realtime_subscriptions up to `await self.realtime_channel.subscribe()`.
\* Creating the channel may raise; the exception is caught.
StartRealtimeSubscriptions(channel_created) ==
    /\ running["start_realtime_subscriptions"] = "idle"
    /\ IF ~IsSome(client) \/ subscription_active
          THEN UNCHANGED <<realtime_channel, running>>
       ELSE IF ~channel_created
          THEN UNCHANGED <<realtime_channel, running>>
       ELSE /\ realtime_channel' = Some("phlowtop")
            /\ running' = [running EXCEPT
                              !["start_realtime_subscriptions"] = "subscribing"]
    /\ UNCHANGED <<now, orchestrator_vars, verifier_vars, store_vars,
                   client, is_connected, callbacks, subscription_active>>

\* start_realtime_subscriptions after the await: subscribed, or the exception
\* of subscribe() caught.
StartResume(subscribed) ==
    /\ running["start_realtime_subscriptions"] = "subscribing"
    /\ subscription_active' = IF subscribed THEN TRUE ELSE subscription_active
    /\ running' = [running EXCEPT !["start_realtime_subscriptions"] = "idle"]
    /\ UNCHANGED <<now, orchestrator_vars, verifier_vars, store_vars,
                   client, is_connected, callbacks, realtime_channel>>

\* stop_realtime_subscriptions, line 374: the channel is unsubscribed from
\* when there is one and the subscription is active.
Unsubscribes == IsSome(realtime_channel) /\ subscription_active

\* stop_realtime_subscriptions, lines 375-380: subscription_active after the
\* await; an exception of unsubscribe() is caught and leaves it as it was.
AfterUnsubscribe(unsubscribed, active) == IF unsubscribed THEN FALSE ELSE active

\* stop_realtime_subscriptions, called on its own, up to the await.
StopRealtimeSubscriptions ==
    /\ running["stop_realtime_subscriptions"] = "idle"
    /\ running' = IF Unsubscribes
                     THEN [running EXCEPT
                              !["stop_realtime_subscriptions"] = "unsubscribing"]
                  ELSE running
    /\ UNCHANGED <<now, orchestrator_vars, verifier_vars, store_vars, client,
                   is_connected, callbacks, realtime_channel, subscription_active>>

\* stop_realtime_subscriptions after the await.
StopResume(unsubscribed) ==
    /\ running["stop_realtime_subscriptions"] = "unsubscribing"
    /\ subscription_active' = AfterUnsubscribe(unsubscribed, subscription_active)
    /\ running' = [running EXCEPT !["stop_realtime_subscriptions"] = "idle"]
    /\ UNCHANGED <<now, orchestrator_vars, verifier_vars, store_vars,
                   client, is_connected, callbacks, realtime_channel>>

\* close, lines 387-391: the connection is dropped when there is a client.
Disconnect ==
    /\ is_connected' = IF IsSome(client) THEN FALSE ELSE is_connected
    /\ client' = None

\* SupabaseMonitor.close up to the await of unsubscribe(); with nothing to
\* unsubscribe from it runs to its end.
Close ==
    /\ running["close"] = "idle"
    /\ IF Unsubscribes
          THEN /\ running' = [running EXCEPT !["close"] = "unsubscribing"]
               /\ UNCHANGED <<client, is_connected>>
       ELSE /\ Disconnect
            /\ UNCHANGED running
    /\ UNCHANGED <<now, orchestrator_vars, verifier_vars, store_vars,
                   callbacks, realtime_channel, subscription_active>>

\* SupabaseMonitor.close after the await, to its end.
CloseResume(unsubscribed) ==
    /\ running["close"] = "unsubscribing"
    /\ subscription_active' = AfterUnsubscribe(unsubscribed, subscription_active)
    /\ Disconnect
    /\ running' = [running EXCEPT !["close"] = "idle"]
    /\ UNCHANGED <<now, orchestrator_vars, verifier_vars, store_vars,
                   callbacks, realtime_channel>>

MonitorNext ==
    \/ \E created, tested \in BOOLEAN : Connect(created, tested)
    \/ \E event_type \in EventTypes : RegisterCallback(event_type)
    \/ \E channel_created \in BOOLEAN : StartRealtimeSubscriptions(channel_created)
    \/ \E subscribed \in BOOLEAN : StartResume(subscribed)
    \/ StopRealtimeSubscriptions
    \/ \E unsubscribed \in BOOLEAN : StopResume(unsubscribed)
    \/ Close
    \/ \E unsubscribed \in BOOLEAN : CloseResume(unsubscribed)

MonitorSpec == MonitorInit /\ [][MonitorNext]_vars

\* ------------------------------------------------------------------ claims
Count(seq, ev) == Cardinality({i \in DOMAIN seq : seq[i] = ev})
Requests(rec) == Count(rec.trace, "request")
Verifications(rec) == Count(rec.trace, "verify")
CacheWrites(rec) == Count(rec.trace, "cache_write")
HasKey(rec) == IsSome(rec.agent_id)
Key(rec) == <<Get(rec.agent_id), Get(rec.required_role)>>
SameKey(r1, r2) == HasKey(r1) /\ HasKey(r2) /\ Key(r1) = Key(r2)
\* Attempt a takes its cache-check step, and the read does not fail.
ChecksCache(a) ==
    att[a].pc = "cache_check" /\ att'[a].pc # "cache_check" /\ ~att'[a].read_failed

\* C1 as stated: any two attempts for the same (agent, role), the second made
\* after the first has ended and at the same instant as the first's cache check
\* (so within any TTL), issue at most one remote credential request in total.
C1_AnyTwoAttemptsOneRequest ==
    [][\A a, b \in Attempts :
         (/\ a # b
          /\ att[a].pc = "done"
          /\ SameKey(att[a], att[b])
          /\ att[a].checked_at = Some(now)
          /\ ChecksCache(b))
         => Requests(att[a]) + Requests(att'[b]) <= 1]_vars

\* C1 amended: once an attempt for (A,R) has verified a presentation and
\* written the cache entry, and while that entry is in the cache and unexpired,
\* another attempt for (A,R) whose cache read succeeds takes the cache branch
\* and sends no request: the two issue at most one remote credential request.
C1_CacheIdempotence ==
    [][\A a, b \in Attempts :
         (/\ a # b
          /\ att[a].pc = "done"
          /\ IsSome(att[a].written)
          /\ SameKey(att[a], att[b])
          /\ cache[Key(att[a])] = att[a].written
          /\ ~is_expired(Get(att[a].written), now)
          /\ ChecksCache(b))
         => /\ att'[b].pc = "done"
            /\ Requests(att'[b]) = 0
            /\ Requests(att[a]) + Requests(att'[b]) <= 1]_vars

C1_Witness ==
    \E a, b \in Attempts :
        /\ a # b
        /\ SameKey(att[a], att[b])
        /\ att[a].pc = "done" /\ CacheWrites(att[a]) = 1
        /\ att[b].pc = "done" /\ Requests(att[b]) = 0
        /\ att[b].trace = <<"verify_token", "cache_check">>
        /\ ~att[b].read_failed
        /\ cache[Key(att[a])] = att[a].written

\* C2: when the cache holds an unexpired entry for (agent_id, required_role),
\* the attempt makes no remote request and no verifier call, leaves the cache
\* unchanged and returns a context with verified_roles = [required_role].
C2_CacheHitIsLocal ==
    [][\A a \in Attempts :
         (/\ ChecksCache(a)
          /\ IsSome(cache[Key(att[a])])
          /\ ~is_expired(Get(cache[Key(att[a])]), now))
         => /\ att'[a].pc = "done"
            /\ att'[a].outcome = "granted"
            /\ att'[a].verified_roles = Some(<<Get(att[a].required_role)>>)
            /\ Requests(att'[a]) = 0
            /\ Verifications(att'[a]) = 0
            /\ cache' = cache]_vars

\* C3: a response whose nonce differs from the nonce of the request sent is
\* rejected: the attempt is not granted and the cache is not written.
C3_NonceMismatchRejected ==
    \A a \in Attempts :
        (IsSome(att[a].response_nonce) /\ att[a].response_nonce # att[a].nonce)
        => /\ att[a].outcome # "granted"
           /\ CacheWrites(att[a]) = 0
           /\ att[a].written = None

\* The case of C4: a reply with error set and no presentation has been handled.
ErrorReplyHandled(rec) ==
    rec.pc = "done" /\ rec.response_error # << >> /\ ~rec.response_presented

\* C4 as stated: for a response with error set and no presentation the attempt
\* is denied, the denial's message equals the upstream error text, the verifier
\* is not called and the cache is not written.
C4_ErrorTextEqualsUpstream ==
    \A a \in Attempts :
        ErrorReplyHandled(att[a])
        => /\ att[a].outcome = "denied"
           /\ Get(att[a].error).message = att[a].response_error
           /\ Verifications(att[a]) = 0
           /\ CacheWrites(att[a]) = 0

\* C4 amended: for a response with error set and no presentation the attempt
\* is denied with an AuthenticationError whose message is "Role credential
\* request failed: " followed by the upstream error text, the verifier is not
\* called and the cache is not written.
C4_ErrorTextPropagated ==
    \A a \in Attempts :
        ErrorReplyHandled(att[a])
        => /\ att[a].outcome = "denied"
           /\ Get(att[a].error).exc = "AuthenticationError"
           /\ Get(att[a].error).message
                 = <<"Role credential request failed: ">> \o att[a].response_error
           /\ Verifications(att[a]) = 0
           /\ CacheWrites(att[a]) = 0
           /\ att[a].written = None

C4_Witness ==
    \E a \in Attempts :
        /\ ErrorReplyHandled(att[a])
        /\ att[a].response_error = <<"Role '", "admin", "' not available">>
        /\ att[a].outcome = "denied"

\* C5: a cached entry with expires_at = t gives a cache hit at every time
\* strictly before t, and a miss at t exactly and at every time after t.
C5_ExpiryBoundary ==
    [][\A a \in Attempts :
         (/\ ChecksCache(a)
          /\ IsSome(cache[Key(att[a])])
          /\ IsSome(Get(cache[Key(att[a])]).expires_at))
         => LET t == Get(Get(cache[Key(att[a])]).expires_at)
            IN  /\ now < t => (att'[a].pc = "done" /\ Requests(att'[a]) = 0)
                /\ now >= t => (att'[a].pc = "awaiting" /\ Requests(att'[a]) = 1)]_vars

\* An entry written before its expires_at is read at expires_at exactly, and missed.
C5_Witness ==
    \E a, b \in Attempts :
        /\ a # b
        /\ SameKey(att[a], att[b])
        /\ IsSome(att[a].written)
        /\ IsSome(att[b].checked_at)
        /\ Get(att[a].written).verified_at < Get(att[b].checked_at)
        /\ Get(att[a].written).expires_at = att[b].checked_at
        /\ ~att[b].read_failed
        /\ Requests(att[b]) = 1

\* C6: every exception raised at a step of authenticate_with_role leaves it as
\* an AuthenticationError; no other exception type reaches the caller.
C6_OnlyAuthenticationErrors ==
    \A a \in Attempts :
        /\ att[a].outcome # "raised"
        /\ IsSome(att[a].error) => Get(att[a].error).exc = "AuthenticationError"

\* C7: when the cache read fails with a storage error, the attempt goes on as
\* on a miss: it sends the credential request and is not ended by the failure.
C7_ReadFailureIsMiss ==
    \A a \in Attempts :
        att[a].read_failed
        => /\ Requests(att[a]) = 1
           /\ att[a].pc = "awaiting" \/ Count(att[a].trace, "response") = 1

\* The read fails while the cache holds an unexpired entry for the key.
C7_Witness ==
    \E a \in Attempts :
        /\ att[a].read_failed
        /\ att[a].pc = "awaiting"
        /\ IsSome(cache[Key(att[a])])
        /\ Get(cache[Key(att[a])]).verified_at < Get(att[a].checked_at)
        /\ ~is_expired(Get(cache[Key(att[a])]), Get(att[a].checked_at))

\* C8: every attempt that has sent its credential request eventually ends,
\* GRANTED or DENIED, also when the target agent never answers.
C8_AttemptEnds ==
    \A a \in Attempts : (att[a].pc = "awaiting") ~> (att[a].pc = "done")

\* C9 as stated: two overlapping attempts for the same key that both found the
\* key absent do not both perform the remote round trip.
C9_NoDoubleRoundTrip ==
    \A a, b \in Attempts :
        (/\ a # b
         /\ SameKey(att[a], att[b])
         /\ att[a].pc \notin {"idle", "cache_check", "done"}
         /\ att[b].pc \notin {"idle", "cache_check", "done"}
         /\ ~att[a].read_failed /\ ~att[b].read_failed
         /\ cache[Key(att[a])] = None)
        => Requests(att[a]) + Requests(att[b]) <= 1

\* C9 amended: two overlapping attempts for the same key may both perform the
\* round trip; the entry the cache holds for a key is always, whole, the entry
\* that one attempt wrote from its own successful verification.
C9_LastWriteWins ==
    \A k \in CacheKeys :
        IsSome(cache[k])
        => \E a \in Attempts :
              /\ HasKey(att[a]) /\ Key(att[a]) = k
              /\ att[a].written = cache[k]
              /\ LET vr == Get(att[a].verification_result)
                     e == Get(cache[k])
                 IN  /\ vr.is_valid
                     /\ e.credential_hash = vr.credential_hash
                     /\ e.issuer_did = vr.issuer_did
                     /\ e.expires_at = vr.expires_at

\* Both attempts missed at time 0, both verified (different credentials), both wrote.
C9_Witness ==
    \E a, b \in Attempts :
        /\ a # b
        /\ SameKey(att[a], att[b])
        /\ att[a].checked_at = Some(0) /\ att[b].checked_at = Some(0)
        /\ ~att[a].read_failed /\ ~att[b].read_failed
        /\ CacheWrites(att[a]) = 1 /\ CacheWrites(att[b]) = 1
        /\ att[a].verification_result # att[b].verification_result
        /\ cache[Key(att[b])] = att[b].written

\* The place of a call in the order of one attempt.
Rank(ev) ==
    CASE ev = "verify_token" -> 0
      [] ev = "cache_check" -> 1
      [] ev = "request" -> 2
      [] ev = "response" -> 3
      [] ev = "verify" -> 4
      [] ev = "cache_write" -> 5

\* C10: within one attempt the cache check comes before the remote request, the
\* request before the verification, the verification before the cache write,
\* and the attempt makes at most one remote call.
C10_StepsInOrder ==
    \A a \in Attempts :
        /\ \A i, j \in DOMAIN att[a].trace :
              i < j => Rank(att[a].trace[i]) < Rank(att[a].trace[j])
        /\ Requests(att[a]) <= 1
        /\ Requests(att[a]) = 1 => Count(att[a].trace, "cache_check") = 1
        /\ Verifications(att[a]) = 1 => Requests(att[a]) = 1
        /\ CacheWrites(att[a]) = 1 => Verifications(att[a]) = 1

C10_Witness ==
    \E a \in Attempts :
        att[a].trace = <<"verify_token", "cache_check", "request", "response",
                         "verify", "cache_write">>

\* The serialized credential behind a hash has the key.
HashHasKey(credential_hash, key) ==
    /\ IsSome(credential_hash)
    /\ \E i \in DOMAIN Get(credential_hash) : Get(credential_hash)[i][1] = key

\* C11: a cache entry written for a credential that has no expirationDate has
\* no expires_at and is usable only for the default TTL: a cache check of the
\* same (agent, role) made DefaultTTL or more after the entry was verified is a
\* miss and sends the credential request.
C11_DefaultTTLExpires ==
    [][\A a \in Attempts :
         /\ (/\ att[a].pc = "caching" /\ att'[a].pc = "done"
             /\ ~HashHasKey(Get(att[a].verification_result).credential_hash,
                            "expirationDate"))
            => /\ IsSome(cache'[Key(att[a])])
               /\ Get(cache'[Key(att[a])]).expires_at = None
               /\ Get(cache'[Key(att[a])]).verified_at = now
         /\ (/\ ChecksCache(a)
             /\ IsSome(cache[Key(att[a])])
             /\ Get(cache[Key(att[a])]).expires_at = None
             /\ now >= Get(cache[Key(att[a])]).verified_at + DefaultTTL)
            => /\ att'[a].pc = "awaiting"
               /\ Requests(att'[a]) = 1]_vars

\* An entry without expires_at is read, and missed, DefaultTTL after it was written.
C11_Witness ==
    \E a, b \in Attempts :
        /\ a # b
        /\ SameKey(att[a], att[b])
        /\ IsSome(att[a].written)
        /\ Get(att[a].written).expires_at = None
        /\ cache[Key(att[a])] = att[a].written
        /\ IsSome(att[b].checked_at)
        /\ Get(att[b].checked_at) = Get(att[a].written).verified_at + DefaultTTL
        /\ ~att[b].read_failed
        /\ att[b].pc = "awaiting"
        /\ Requests(att[b]) = 1

\* The call of verify_presentation has come back with a result.
Verified == IsSome(v_result) /\ ~Get(v_result).raised
\* The credentials of the presentation that verification is about: the selected
\* one, or the only one.
Judged(credential) ==
    \/ Selected(v_presentation) = Some(credential)
    \/ v_presentation.verifiable_credential = <<credential>>
\* Text t names the role r.
Names(t, r) == \E i \in DOMAIN t : t[i] = r

\* C12: when required_role is not among get_roles() of the selected credential,
\* verify_presentation returns is_valid = false with an error message that
\* names required_role, also for an unexpired credential with a complete proof.
C12_RoleContainment ==
    (/\ IsSome(v_result)
     /\ IsSome(Selected(v_presentation))
     /\ v_required_role \notin get_roles(Get(Selected(v_presentation))))
    => /\ Verified
       /\ ~Get(v_result).value.is_valid
       /\ IsSome(Get(v_result).value.error_message)
       /\ Names(Get(Get(v_result).value.error_message), v_required_role)

\* A manager credential, unexpired, with complete proofs, is asked for admin.
C12_Witness ==
    /\ Verified
    /\ v_required_role = "admin"
    /\ v_presentation.proof = Some(CompleteProof)
    /\ Selected(v_presentation)
          = Some(Credential(RoleTypes, {"manager"}, Some(IsoDate(MaxTime)),
                            Some(CompleteProof)))
    /\ Get(v_result).value
          = Invalid(<<"Required role '", "admin", "' not found in credential">>)

\* The expirationDate of the credential is a date before now.
IsExpired(credential) ==
    /\ IsSome(credential.expiration_date)
    /\ Get(credential.expiration_date).iso
    /\ Get(credential.expiration_date).at < now

\* C13: verify_presentation returns is_valid = false for every credential whose
\* expirationDate is in the past, whatever its proof and the presentation's proof.
C13_ExpiredRejected ==
    IsSome(v_result)
    => \A i \in DOMAIN v_presentation.verifiable_credential :
          LET credential == v_presentation.verifiable_credential[i]
          IN  (Judged(credential) /\ IsExpired(credential))
              => Verified /\ ~Get(v_result).value.is_valid

\* An expired credential that grants the role and has complete proofs.
C13_Witness ==
    /\ Verified
    /\ IsSome(Selected(v_presentation))
    /\ IsExpired(Get(Selected(v_presentation)))
    /\ v_required_role \in get_roles(Get(Selected(v_presentation)))
    /\ Get(Selected(v_presentation)).proof = Some(CompleteProof)
    /\ v_presentation.proof = Some(CompleteProof)
    /\ Get(v_result).value = Invalid(<<"Credential has expired">>)

\* C14: verify_presentation returns is_valid = false for every credential whose
\* proof is absent, whatever its type, roles and expiry; no valid result, the
\* only basis of a grant or of a cache write, rests on a credential with no proof.
C14_MissingProofRejected ==
    IsSome(v_result)
    => /\ \A i \in DOMAIN v_presentation.verifiable_credential :
             LET credential == v_presentation.verifiable_credential[i]
             IN  (Judged(credential) /\ credential.proof = None)
                 => Verified /\ ~Get(v_result).value.is_valid
       /\ (Verified /\ Get(v_result).value.is_valid)
          => /\ IsSome(Selected(v_presentation))
             /\ IsSome(Get(Selected(v_presentation)).proof)
             /\ HashHasKey(Get(v_result).value.credential_hash, "proof")

\* A role credential that grants the role, is unexpired and has no proof.
C14_Witness ==
    /\ Verified
    /\ IsSome(Selected(v_presentation))
    /\ Get(Selected(v_presentation)).proof = None
    /\ v_required_role \in get_roles(Get(Selected(v_presentation)))
    /\ Get(Selected(v_presentation)).expiration_date = Some(IsoDate(MaxTime))
    /\ v_presentation.proof = Some(CompleteProof)
    /\ Get(v_result).value = Invalid(<<"Invalid credential signature">>)

\* C15: verify_presentation raises for no presentation and role: it returns a
\* result, and in every result error_message is present exactly when is_valid
\* is false.
C15_NeverRaises ==
    IsSome(v_result)
    => /\ ~Get(v_result).raised
       /\ Get(v_result).value.is_valid <=> Get(v_result).value.error_message = None

\* The body raised (a malformed expirationDate) and a result came back.
C15_Witness ==
    /\ Verified
    /\ VerifyPresentationBody(v_presentation, v_required_role, now).raised
    /\ Get(v_result).value = Invalid(<<"Verification error: ", "ValueError">>)

\* The content of a credential that its serialization carries.
Content(credential) ==
    [k \in {"credentialSubject", "expirationDate", "issuer", "proof", "type"}
        |-> FieldValue(credential, k)]

\* C16: the credential hash is the same whatever the key insertion order of
\* the credential's representation, and two credentials have the same hash
\* exactly when their serialized content is the same.
C16_HashStable ==
    (IsSome(v_hash) /\ IsSome(Selected(v_presentation)))
    => LET credential == Get(Selected(v_presentation))
       IN  /\ \A o \in Orders : Get(v_hash) = CredentialHashOf(credential, o)
           /\ Get(v_hash) = _create_credential_hash(credential)
           /\ \A other \in Credentials :
                 (_create_credential_hash(other) = Get(v_hash))
                 <=> (Content(other) = Content(credential))

\* A hash computed from a representation whose keys are not in sorted order and
\* not in the order of the model's fields.
C16_Witness ==
    /\ IsSome(v_hash)
    /\ v_order = <<"proof", "credentialSubject", "expirationDate", "issuer", "type">>
    /\ Len(Get(v_hash)) = 5

\* What get_credential(role) returns before a step of the store, and after it.
Stored(role) == View(_credentials, _loaded, credentials_file, role)
StoredAfter(role) == View(_credentials', _loaded', credentials_file', role)

\* C17: after add_credential(c) returns, get_credential(r) yields c for every
\* role r that c grants, whatever was stored for r before, and yields for every
\* other role what it yielded before.
C17_AddIndexesEveryRole ==
    [][\A credential \in StoreCredentials, write \in WriteOutcomes :
         AddCredential(credential, write)
         => \A r \in Roles :
               StoredAfter(r) = IF r \in get_roles(credential) THEN Some(credential)
                                ELSE Stored(r)]_vars

\* A credential for both roles has replaced the one stored for admin (the one
\* the file still holds, the write not having reached it), under both roles.
C17_Witness ==
    /\ call.op = "add_credential"
    /\ call.write = "open_fails"
    /\ get_roles(Get(call.credential)) = {"admin", "manager"}
    /\ _credentials["admin"] = call.credential
    /\ _credentials["manager"] = call.credential
    /\ credentials_file.state = "json"
    /\ IsSome(credentials_file.data["admin"])
    /\ Get(credentials_file.data["admin"]) # DumpCredential(Get(call.credential))
    /\ ~ParseCredential(Get(credentials_file.data["admin"])).raised

\* C18: remove_credential(role) returns true exactly when a credential was
\* stored for role; afterwards has_role(role) is false and every other role
\* has the credential it had, the other roles of a multi-role credential
\* among them; when it returns false the store, file included, is unchanged.
C18_RemoveOnlyThatRole ==
    [][\A role \in Roles, write \in WriteOutcomes :
         RemoveCredential(role, write)
         => /\ returned' = Some(IsSome(Stored(role)))
            /\ StoredAfter(role) = None
            /\ \A r \in Roles \ {role} : StoredAfter(r) = Stored(r)
            /\ returned' = Some(FALSE)
               => /\ \A r \in Roles : StoredAfter(r) = Stored(r)
                  /\ credentials_file' = credentials_file]_vars

\* One role of a credential stored under both roles has been removed.
C18_Witness ==
    /\ call.op = "remove_credential"
    /\ call.role = Some("admin")
    /\ returned = Some(TRUE)
    /\ _credentials["admin"] = None
    /\ IsSome(_credentials["manager"])
    /\ get_roles(Get(_credentials["manager"])) = {"admin", "manager"}

\* C19: create_presentation(role, holder_did, challenge) returns none when the
\* store has no credential for role; otherwise a presentation whose holder is
\* holder_did and whose credentials are exactly the one stored for role; what
\* the store holds, in memory and in its file, is as before.
C19_PresentationOfStored ==
    [][\A role \in Roles, holder_did \in Holders, challenge \in Challenges :
         CreatePresentation(role, holder_did, challenge)
         => /\ Stored(role) = None => returned' = Some(None)
            /\ IsSome(Stored(role))
               => /\ IsSome(Get(returned'))
                  /\ Get(Get(returned')).holder = holder_did
                  /\ Get(Get(returned')).verifiable_credential
                        = <<Get(Stored(role))>>
            /\ \A r \in Roles : StoredAfter(r) = Stored(r)
            /\ credentials_file' = credentials_file]_vars

\* Scenario A: a presentation of the admin credential for did:example:x.
C19_Witness ==
    /\ call.op = "create_presentation"
    /\ call.role = Some("admin")
    /\ call.holder_did = Some("did:example:x")
    /\ call.challenge = Some("chal-1")
    /\ IsSome(Get(returned))
    /\ Len(Get(Get(returned)).verifiable_credential) = 1
    /\ "admin" \in get_roles(Get(Get(returned)).verifiable_credential[1])
    /\ Get(Get(returned)).holder = "did:example:x"

\* C20: every presentation returned by create_presentation(role, holder_did,
\* challenge) carries a presentation proof that incorporates the challenge.
C20_ProofBindsChallenge ==
    (call.op = "create_presentation" /\ IsSome(Get(returned)))
    => /\ IsSome(Get(Get(returned)).proof)
       /\ Get(Get(Get(returned)).proof).challenge = call.challenge

\* C21: for a store that holds a credential for role, export_credential_to_file
\* returns true and leaves a file that reads back as that credential, which
\* grants role; import_credential_from_file of such a file into an empty store
\* returns true, and afterwards the store holds the credential read under every
\* role it grants.  The export file is taken to be written and read whole.
C21_ExportImportRoundTrip ==
    [][/\ \A role \in Roles :
             (ExportCredentialToFile(role, "ok") /\ IsSome(Stored(role)))
             => /\ returned' = Some(TRUE)
                /\ export_file'.state = "json"
                /\ ReadExport(export_file') = Returned(Get(Stored(role)))
                /\ role \in get_roles(Get(Stored(role)))
       /\ \A write \in WriteOutcomes :
             (/\ ImportCredentialFromFile(write)
              /\ \A r \in Roles : Stored(r) = None
              /\ ~ReadExport(export_file).raised)
             => /\ returned' = Some(TRUE)
                /\ \A r \in get_roles(ReadExport(export_file).value) :
                      StoredAfter(r) = Some(ReadExport(export_file).value)]_vars

\* The credential with an expirationDate, exported, is all an imported store
\* holds, in memory and in its file.
C21_Witness ==
    /\ call.op = "import_credential_from_file"
    /\ returned = Some(TRUE)
    /\ call.write = "ok"
    /\ call.credential
          = Some(Credential(RoleTypes, {"admin", "manager"}, Some(IsoDate(1)),
                            Some(CompleteProof)))
    /\ export_file = [state |-> "json", data |-> DumpCredential(Get(call.credential))]
    /\ \A r \in Roles : _credentials[r] = call.credential
    /\ credentials_file
          = JsonFile([r \in Roles |-> Some(DumpCredential(Get(call.credential)))])

\* C22: when the write to the file fails during add_credential or
\* remove_credential, what has_role, get_credential and get_all_roles return
\* is what they returned before the operation.
C22_FailedWriteLeavesIndex ==
    [][\A write \in WriteOutcomes \ {"ok"} :
         /\ \A credential \in StoreCredentials :
               AddCredential(credential, write)
               => \A r \in Roles : StoredAfter(r) = Stored(r)
         /\ \A role \in Roles :
               (RemoveCredential(role, write) /\ IsSome(Stored(role)))
               => \A r \in Roles : StoredAfter(r) = Stored(r)]_vars

\* C23: whenever add_credential, remove_credential or import_credential_from_file
\* returns reporting success, the file holds exactly the in-memory index: a new
\* store opened on the same path loads the same credentials.
C23_SuccessMeansDurable ==
    [][(\/ \E credential \in StoreCredentials, write \in WriteOutcomes :
              AddCredential(credential, write)
        \/ \E role \in Roles, write \in WriteOutcomes :
              RemoveCredential(role, write) /\ returned' = Some(TRUE)
        \/ \E write \in WriteOutcomes :
              ImportCredentialFromFile(write) /\ returned' = Some(TRUE))
       => load_credentials(EmptyIndex, credentials_file') = _credentials']_vars

\* C24: after close() returns, from any state of the monitor,
\* subscription_active is false, is_connected is false and client is None.
C24_ClosedMeansStopped ==
    [][((Close \/ \E unsubscribed \in BOOLEAN : CloseResume(unsubscribed))
        /\ running'["close"] = "idle")
       => /\ ~subscription_active'
          /\ ~is_connected'
          /\ client' = None]_vars

\* The expirationDate of the credential is a date at or before now.
IsAtOrPastExpiry(credential) ==
    /\ IsSome(credential.expiration_date)
    /\ Get(credential.expiration_date).iso
    /\ Get(credential.expiration_date).at <= now

\* C25: verify_presentation rejects a credential whose expirationDate is at or
\* before the current time, the current time itself included, and accepts a
\* set expirationDate only when it is strictly after now.
C25_RejectedAtExpiry ==
    IsSome(v_result)
    => \A i \in DOMAIN v_presentation.verifiable_credential :
          LET credential == v_presentation.verifiable_credential[i]
          IN  (Judged(credential) /\ IsAtOrPastExpiry(credential))
              => Verified /\ ~Get(v_result).value.is_valid

\* The checks of verify_presentation in their order, each with the message it
\* fails with: the message of the first check that fails, none when all pass.
FirstFailure(presentation, required_role, t) ==
    LET creds == presentation.verifiable_credential
        typed == {i \in DOMAIN creds : "RoleCredential" \in creds[i].type}
    IN  IF Len(creds) = 0 THEN Some(<<"No credentials in presentation">>)
        ELSE IF typed = {} THEN Some(<<"No role credential found in presentation">>)
        ELSE LET credential == creds[CHOOSE i \in typed : \A j \in typed : i <= j]
                 exp == credential.expiration_date
             IN  IF "RoleCredential" \notin credential.type
                    THEN Some(<<"Not a role credential">>)
                 ELSE IF required_role \notin credential.roles
                    THEN Some(<<"Required role '", required_role,
                                "' not found in credential">>)
                 ELSE IF IsSome(exp) /\ ~Get(exp).iso
                    THEN Some(<<"Verification error: ", "ValueError">>)
                 ELSE IF IsSome(exp) /\ Get(exp).at < t
                    THEN Some(<<"Credential has expired">>)
                 ELSE IF \/ credential.proof = None
                         \/ \E f \in {"type", "created", "verification_method",
                                       "signature"} : ~Get(credential.proof)[f]
                    THEN Some(<<"Invalid credential signature">>)
                 ELSE IF presentation.proof = None
                    THEN Some(<<"Invalid presentation signature">>)
                 ELSE None

\* C26: verify_presentation fails fast in the order empty presentation, no
\* credential typed RoleCredential, type, role containment, expiration,
\* credential proof, presentation proof: the error_message returned is the one
\* of the first check of that order that fails, and the result is valid when
\* none fails.
C26_FailFastOrder ==
    IsSome(v_result)
    => /\ Verified
       /\ Get(v_result).value.error_message
             = FirstFailure(v_presentation, v_required_role, now)
       /\ Get(v_result).value.is_valid
             <=> FirstFailure(v_presentation, v_required_role, now) = None

\* A credential that fails the role, expiration and credential proof checks in
\* a presentation without proof: the message is the one of the role check.
C26_Witness ==
    /\ Verified
    /\ v_presentation = Presentation(<<Credential(RoleTypes, {"manager"},
                                                  Some(IsoDate(0)), None)>>, None)
    /\ v_required_role = "admin"
    /\ now > 0
    /\ Get(v_result).value
          = Invalid(<<"Required role '", "admin", "' not found in credential">>)

\* C27: the agent_id used as cache key is the identity of the caller resolved
\* from the presented token, so two attempts with tokens of different agents
\* use different cache keys and none is served from the other's cache entry.
C27_KeyIsCallerIdentity ==
    /\ \A a \in Attempts :
          HasKey(att[a]) => att[a].agent_id = Some(Get(att[a].token).sub)
    /\ \A a, b \in Attempts :
          (/\ HasKey(att[a]) /\ HasKey(att[b])
           /\ Get(att[a].token).sub # Get(att[b].token).sub)
          => Key(att[a]) # Key(att[b])

\* C28: an attempt is GRANTED only if, in that attempt, the cache held an
\* unexpired entry for its key or verify_presentation returned is_valid = true;
\* the cache is written only by an attempt whose verification was valid, and
\* by no attempt that ends in denial.
C28_GrantAndWriteOnlyWhenVerified ==
    \A a \in Attempts :
        /\ att[a].outcome = "granted"
           => \/ att[a].trace = <<"verify_token", "cache_check">>
              \/ /\ IsSome(att[a].verification_result)
                 /\ Get(att[a].verification_result).is_valid
        /\ CacheWrites(att[a]) > 0
           => /\ IsSome(att[a].verification_result)
              /\ Get(att[a].verification_result).is_valid
        /\ att[a].outcome \in {"denied", "raised"} => CacheWrites(att[a]) = 0

\* The expirationDate of the credential a cache entry was written for, if any.
CredentialExpiry(entry) ==
    IF IsSome(entry.credential_hash)
        THEN DumpValue(Get(entry.credential_hash), "expirationDate")
    ELSE None

\* C29: a cache entry written after verifying a credential with expirationDate
\* e expires at e: no attempt that checks the cache at e or later is served
\* from the entry; it sends the credential request.
C29_GrantWithinCredentialLife ==
    [][\A a \in Attempts :
         /\ \A k \in CacheKeys :
               (IsSome(cache'[k]) /\ IsSome(CredentialExpiry(Get(cache'[k]))))
               => Get(cache'[k]).expires_at
                     = Some(Get(CredentialExpiry(Get(cache'[k]))).at)
         /\ (/\ ChecksCache(a)
             /\ IsSome(cache[Key(att[a])])
             /\ IsSome(CredentialExpiry(Get(cache[Key(att[a])])))
             /\ now >= Get(CredentialExpiry(Get(cache[Key(att[a])]))).at)
            => /\ att'[a].pc = "awaiting"
               /\ att'[a].outcome = "none"
               /\ Requests(att'[a]) = 1]_vars

\* An entry for a credential that expires at 1 is read after 1, and missed.
C29_Witness ==
    \E a, b \in Attempts :
        /\ a # b
        /\ SameKey(att[a], att[b])
        /\ IsSome(att[a].written)
        /\ cache[Key(att[a])] = att[a].written
        /\ CredentialExpiry(Get(att[a].written)) = Some(IsoDate(1))
        /\ IsSome(att[b].checked_at)
        /\ Get(att[b].checked_at) > 1
        /\ ~att[b].read_failed
        /\ att[b].pc = "awaiting"

\* The credential is unexpired and its proof is complete.
UnexpiredAndSigned(credential) ==
    /\ credential.expiration_date = None
       \/ (Get(credential.expiration_date).iso
           /\ Get(credential.expiration_date).at > now)
    /\ credential.proof = Some(CompleteProof)

\* C30: for a store holding an unexpired credential for role R with a complete
\* proof, the presentation returned by create_presentation(R, holder_did,
\* challenge) is accepted by verify_presentation(presentation, R).
C30_StoreAndVerifierAgree ==
    (/\ call.op = "create_presentation"
     /\ IsSome(Get(returned))
     /\ UnexpiredAndSigned(Get(Get(returned)).verifiable_credential[1]))
    => verify_presentation(Get(Get(returned)), Get(call.role), now).is_valid
====
